---- MODULE Spec2Model ----
(***************************************************************************)
(* A model of the one-dimensional FDTD engine of src/fdtd.py (class FDTD): *)
(* construction and validation, layer registration, source and probe       *)
(* registration, and the per-step field update driven by the timer.        *)
(*                                                                         *)
(* Representation.  Python arrays are sequences; the Python index i is the *)
(* TLA+ index i + 1 (see At).  Lengths and positions are integers.  A time *)
(* is stored as a number of quanta of 1/c time units, so that the time     *)
(* step dx*Sc/c is the integer dx*Sc; sums of times are rounded to a       *)
(* floating-point mantissa of MantissaBits bits, as the doubles of the     *)
(* program are rounded to 53.  Field values are integer multiples of a     *)
(* field quantum and quotients are truncated to it.                        *)
(***************************************************************************)
EXTENDS Integers, Sequences, FiniteSets, TLC

VARIABLES
    args,          \* the constructor's arguments
    result,        \* "new", "ok", or the name of the exception raised
    dx,            \* self.__dx
    area_size,     \* self.__area_size: the number of nodes N
    Sc,            \* self.__Sc
    dt,            \* self.__dt, in quanta of 1/c
    time_counts,   \* self.__time_counts
    E, H,          \* self.__E (N values), self.__H (N - 1 values)
    eps, mu, sigma,\* self.__eps (N), self.__mu (N - 1), self.__sigma (N)
    borders,       \* self.__borders
    layers,        \* self.__layers
    sources,       \* self.__sources
    probes,        \* self.__probes
    ceze, cezh,    \* self.__ceze, self.__cezh: sequences of <<num, den>>
    current_time,  \* self.__current_time, in quanta of 1/c
    timer,         \* "unset", "active" or "stopped": self.timer
    pc,            \* the position inside next_iteration, "idle" between calls
    raised,        \* the exception the last call raised, "none" if none
    phases,        \* history: the phases of the current next_iteration call
    steps,         \* history: the calls of next_iteration that took the if branch
    assigned,      \* history: every name add_layer has assigned, in order
    lastOp,        \* history: "add" after add_layer, "roundtrip" after the
                   \* delete_layer of the name just added, "other" otherwise
    snap           \* history: the grid state before the last add_layer

vars == <<args, result, dx, area_size, Sc, dt, time_counts, E, H, eps, mu,
          sigma, borders, layers, sources, probes, ceze, cezh, current_time,
          timer, pc, raised, phases, steps, assigned, lastOp, snap>>

gridVars == <<dx, area_size, Sc, dt, time_counts>>
fieldVars == <<E, H>>
materialVars == <<eps, mu, sigma>>
layerVars == <<borders, layers, assigned, lastOp, snap>>
runVars == <<ceze, cezh, current_time, timer, pc, phases, steps>>

(***************************************************************************)
(* Constants of the program and bounds of the model.                       *)
(***************************************************************************)
c == 2                \* speed of light, in length units per time unit
W_0 == 2              \* wave impedance of vacuum, in model units
MantissaBits == 3     \* bits of the floating-point mantissa
MaxInput == 3         \* constructor arguments range over -1 .. MaxInput
MaxAdds == 3          \* add_layer calls in one behaviour
MaxSources == 1       \* registered sources
MaxProbes == 2        \* registered probes
Amplitude == 8        \* the amplitude of a source's excitation

(***************************************************************************)
(* Arithmetic helpers.                                                     *)
(***************************************************************************)
Min(a, b) == IF a < b THEN a ELSE b
Max(a, b) == IF a > b THEN a ELSE b

\* Python's a // b for b # 0: the floor of the quotient.
FloorDiv(a, b) == IF b > 0 THEN a \div b ELSE (-a) \div (-b)

\* Python's int(a / b) for b > 0: the quotient truncated toward zero.
Trunc(a, b) == IF a >= 0 THEN a \div b ELSE -((-a) \div b)

\* a / b on field values, truncated to the field quantum.
Quot(a, b) == IF b > 0 THEN Trunc(a, b) ELSE Trunc(-a, -b)

RECURSIVE BitLength(_)
BitLength(n) == IF n = 0 THEN 0 ELSE 1 + BitLength(n \div 2)

RECURSIVE Pow2(_)
Pow2(k) == IF k = 0 THEN 1 ELSE 2 * Pow2(k - 1)

\* The nearest value with at most MantissaBits significant bits, ties to the
\* even mantissa: the rounding of a floating-point sum (n >= 0).
FloatRound(n) ==
    IF BitLength(n) <= MantissaBits THEN n
    ELSE LET q == Pow2(BitLength(n) - MantissaBits)
             m == n \div q
             r == n - m * q
         IN IF 2 * r < q THEN m * q
            ELSE IF 2 * r > q THEN (m + 1) * q
            ELSE IF m % 2 = 0 THEN m * q ELSE (m + 1) * q

RECURSIVE Isqrt(_)
Isqrt(n) == IF n < 1 THEN 0
            ELSE LET r == 2 * Isqrt(n \div 4)
                 IN IF (r + 1) * (r + 1) <= n THEN r + 1 ELSE r

(***************************************************************************)
(* Python indexing.                                                        *)
(***************************************************************************)
\* arr[i] on an array of n elements raises IndexError outside -n .. n - 1.
OutOfBounds(i, n) == i >= n \/ i < -n

\* The element arr[i] addresses: a negative index counts from the end.
PyIndex(i, n) == IF i < 0 THEN i + n ELSE i

At(arr, i) == arr[PyIndex(i, Len(arr)) + 1]

Put(arr, i, v) == [arr EXCEPT ![PyIndex(i, Len(arr)) + 1] = v]

\* The bounds of the slice arr[b:e] on n elements.
SliceBound(b, n) == IF b < 0 THEN Max(b + n, 0) ELSE Min(b, n)

\* arr[b:e] = v
SliceAssign(arr, b, e, v) ==
    LET lo == SliceBound(b, Len(arr))
        hi == SliceBound(e, Len(arr))
    IN [i \in 1..Len(arr) |-> IF i - 1 >= lo /\ i - 1 < hi THEN v ELSE arr[i]]

Zeros(n) == [i \in 1..n |-> 0]
Ones(n) == [i \in 1..n |-> 1]
AllZero(arr) == \A i \in 1..Len(arr) : arr[i] = 0

(***************************************************************************)
(* Construction: FDTD.__init__ and its validation.                         *)
(***************************************************************************)
\* A duration of t time units, in quanta of 1/c.
Quanta(t) == c * t

\* dt = space_step * Sc / c, in quanta of 1/c.
TimeStep(space_step, Sc_) == space_step * Sc_

ValidateArea(area, space_step) ==
    IF area <= 0 THEN "AreaSizeError"
    ELSE IF space_step > area THEN "SpaceStepError"
    ELSE "ok"

ValidateSc(Sc_) == IF Sc_ <= 0 THEN "ScValueError" ELSE "ok"

ValidateTime(space_step, time_duration, Sc_) ==
    IF time_duration <= 0 THEN "TimeDurationError"
    ELSE IF TimeStep(space_step, Sc_) > Quanta(time_duration) THEN "TimeStepError"
    ELSE "ok"

ValidateInitData(a) ==
    IF ValidateArea(a.area_size, a.space_step) # "ok"
    THEN ValidateArea(a.area_size, a.space_step)
    ELSE IF ValidateSc(a.Sc) # "ok" THEN ValidateSc(a.Sc)
    ELSE ValidateTime(a.space_step, a.time_duration, a.Sc)

\* The quotient rounded up in place of down.
NodeCountCeil(a) == FloorDiv(a.area_size + a.space_step - 1, a.space_step)

\* The number of nodes: int(area_size // space_step).
NodeCount(a) == FloorDiv(a.area_size, a.space_step)

\* What the constructor does on the arguments a: "ok", or the exception.
ConstructResult(a) ==
    IF ValidateInitData(a) # "ok" THEN ValidateInitData(a)
    ELSE IF a.space_step = 0 THEN "ZeroDivisionError"   \* area_size // dx
    ELSE IF NodeCount(a) < 0 THEN "ValueError"          \* np.zeros(negative)
    ELSE "ok"

\* E allocated with np.ones in place of np.zeros.
InitEOnes(n) == Ones(n)

\* self.__E = np.zeros(self.__area_size)
InitE(n) == Zeros(n)

\* self.__H = np.zeros(self.__area_size - 1)
InitH(n) == Zeros(n)

NoSnap == [eps |-> <<>>, mu |-> <<>>, sigma |-> <<>>,
           borders |-> <<>>, layers |-> <<>>]

\* The object before construction, and after a constructor that raised.
Blank(a, res) ==
    [args |-> a, result |-> res, dx |-> 0, area_size |-> 0, Sc |-> 0, dt |-> 0,
     time_counts |-> 0, E |-> <<>>, H |-> <<>>, eps |-> <<>>, mu |-> <<>>,
     sigma |-> <<>>]

\* The object a successful constructor leaves.
Fresh(a) ==
    LET n == NodeCount(a)
        d == TimeStep(a.space_step, a.Sc)
    IN [args |-> a, result |-> "ok", dx |-> a.space_step, area_size |-> n,
        Sc |-> a.Sc, dt |-> d,
        time_counts |-> FloorDiv(Quanta(a.time_duration), d),
        E |-> InitE(n), H |-> InitH(n - 1), eps |-> Ones(n), mu |-> Ones(n - 1),
        sigma |-> Zeros(n)]

Constructed(a) ==
    IF ConstructResult(a) = "ok" THEN Fresh(a) ELSE Blank(a, ConstructResult(a))

\* The variables the constructor sets hold the object o.
Holds(o) ==
    /\ args = o.args /\ result = o.result /\ dx = o.dx
    /\ area_size = o.area_size /\ Sc = o.Sc /\ dt = o.dt
    /\ time_counts = o.time_counts /\ E = o.E /\ H = o.H
    /\ eps = o.eps /\ mu = o.mu /\ sigma = o.sigma

\* The collections and the run state of a new object.
Unstarted ==
    /\ borders = <<>> /\ layers = <<>> /\ sources = <<>> /\ probes = <<>>
    /\ ceze = <<>> /\ cezh = <<>> /\ current_time = 0 /\ timer = "unset"
    /\ pc = "idle" /\ raised = "none" /\ phases = <<>> /\ steps = 0
    /\ assigned = <<>> /\ lastOp = "other" /\ snap = NoSnap

InputValues == -1..MaxInput

ArgSet == [area_size : InputValues, space_step : InputValues,
           time_duration : InputValues, Sc : InputValues]

InitNew == /\ \E a \in ArgSet : Holds(Blank(a, "new"))
           /\ Unstarted

\* FDTD(area_size, space_step, time_duration, Sc)
Construct ==
    /\ result = "new"
    /\ LET o == Constructed(args)
       IN /\ args' = o.args /\ result' = o.result /\ dx' = o.dx
          /\ area_size' = o.area_size /\ Sc' = o.Sc /\ dt' = o.dt
          /\ time_counts' = o.time_counts /\ E' = o.E /\ H' = o.H
          /\ eps' = o.eps /\ mu' = o.mu /\ sigma' = o.sigma
    /\ UNCHANGED <<layerVars, sources, probes, runVars, raised>>

NextNew == Construct

SpecNew == InitNew /\ [][NextNew]_vars

(***************************************************************************)
(* Layers: FDTD.add_layer and FDTD.delete_layer.                           *)
(***************************************************************************)
\* "Layer" + str(n)
LayerName(n) == <<"Layer", n>>

\* list.pop(i) on a list that has the index i.
Pop(list, i) ==
    IF OutOfBounds(i, Len(list)) THEN list
    ELSE LET k == PyIndex(i, Len(list)) + 1
         IN [j \in 1..(Len(list) - 1) |-> IF j < k THEN list[j] ELSE list[j + 1]]

\* The grid index of a layer bound: int(x / dx).
LayerIndex(x) == Trunc(x, dx)

\* The two pops in the other order: pop(2 * i), then pop(2 * i + 1).
RemoveBordersLowFirst(b, i) == Pop(Pop(b, 2 * i), 2 * i + 1)

\* The two pops of delete_layer for the layer at index i.
RemoveBorders(b, i) == Pop(Pop(b, 2 * i + 1), 2 * i)

\* The index of the first layer named name, -1 if there is none.
FindLayer(name) ==
    IF \E i \in 1..Len(layers) : layers[i].name = name
    THEN (CHOOSE i \in 1..Len(layers) :
             /\ layers[i].name = name
             /\ \A j \in 1..(i - 1) : layers[j].name # name) - 1
    ELSE -1

GridSnapshot == [eps |-> eps, mu |-> mu, sigma |-> sigma,
                 borders |-> borders, layers |-> layers]

Configurable == result = "ok" /\ timer = "unset"

\* add_layer(layer)
AddLayer(layer) ==
    /\ Configurable
    /\ LET name == LayerName(Len(layers))
           begin == LayerIndex(layer.area[1])
           end == LayerIndex(layer.area[2])
       IN /\ layers' = Append(layers, [name |-> name, area |-> layer.area,
                                       eps |-> layer.eps, mu |-> layer.mu,
                                       sigma |-> layer.sigma])
          /\ eps' = SliceAssign(eps, begin, end, layer.eps)
          /\ mu' = SliceAssign(mu, begin, end, layer.mu)
          /\ sigma' = SliceAssign(sigma, begin, end, layer.sigma)
          /\ borders' = borders \o <<layer.area[1], layer.area[2]>>
          /\ assigned' = Append(assigned, name)
    /\ lastOp' = "add"
    /\ snap' = GridSnapshot
    /\ raised' = "none"
    /\ UNCHANGED <<args, result, gridVars, fieldVars, sources, probes, runVars>>

\* delete_layer(name)
DeleteLayer(name) ==
    /\ Configurable
    /\ LET i == FindLayer(name)
       IN IF i < 0
          THEN UNCHANGED <<materialVars, borders, layers>>
          ELSE LET layer == layers[i + 1]
                   begin == LayerIndex(layer.area[1])
                   end == LayerIndex(layer.area[2])
               IN /\ eps' = SliceAssign(eps, begin, end, 1)
                  /\ mu' = SliceAssign(mu, begin, end, 1)
                  /\ sigma' = SliceAssign(sigma, begin, end, 0)
                  /\ borders' = RemoveBorders(borders, i)
                  /\ layers' = Pop(layers, i)
    /\ IF lastOp = "add" /\ name = assigned[Len(assigned)]
       THEN lastOp' = "roundtrip" /\ snap' = snap
       ELSE lastOp' = "other" /\ snap' = NoSnap
    /\ raised' = "none"
    /\ UNCHANGED <<args, result, gridVars, fieldVars, sources, probes,
                   runVars, assigned>>

\* The arguments of the engine the layer behaviours start from.
LayerArgs == [area_size |-> 8, space_step |-> 2, time_duration |-> 4, Sc |-> 1]

LayerCoords == {0, 3, 4, 8}

Materials == {[eps |-> 2, mu |-> 1, sigma |-> 0],
              [eps |-> 4, mu |-> 2, sigma |-> 1]}

LayerInputs ==
    {[area |-> <<a, b>>, eps |-> m.eps, mu |-> m.mu, sigma |-> m.sigma] :
        a \in LayerCoords, b \in LayerCoords, m \in Materials}

InitLayers == Holds(Constructed(LayerArgs)) /\ Unstarted

NextLayers ==
    \/ \E layer \in LayerInputs :
          /\ layer.area[1] < layer.area[2]
          /\ Len(assigned) < MaxAdds
          /\ AddLayer(layer)
    \/ \E n \in 0..MaxAdds : DeleteLayer(LayerName(n))

SpecLayers == InitLayers /\ [][NextLayers]_vars

(***************************************************************************)
(* Sources and probes: FDTD.add_source and FDTD.add_probes.                *)
(***************************************************************************)
\* The grid index of a position: int(position // dx).
GridIndex(position) == FloorDiv(position, dx)

\* add_source(source), for a source at the physical position `position`
AddSource(position) ==
    /\ Configurable
    /\ LET pos == GridIndex(position)
       IN IF OutOfBounds(pos, Len(eps)) \/ OutOfBounds(pos, Len(mu))
          THEN raised' = "IndexError" /\ UNCHANGED sources
          ELSE /\ sources' = Append(sources, [position |-> pos,
                                              eps |-> At(eps, pos),
                                              mu |-> At(mu, pos),
                                              Sc |-> Sc, dt |-> dt])
               /\ raised' = "none"
    /\ lastOp' = "other" /\ snap' = NoSnap
    /\ UNCHANGED <<args, result, gridVars, fieldVars, materialVars, borders,
                   layers, assigned, probes, runVars>>

\* Probe(position, time_counts): a series of time_counts samples, none filled.
NewProbe(position) ==
    [position |-> position, E |-> Zeros(time_counts), H |-> Zeros(time_counts),
     time |-> 0]

RECURSIVE ProbesAt(_)
ProbesAt(positions) ==
    IF positions = <<>> THEN <<>>
    ELSE <<NewProbe(GridIndex(Head(positions)))>> \o ProbesAt(Tail(positions))

\* add_probes(probes_position): a float, a sequence of floats, or anything else
AddProbes(arg) ==
    /\ Configurable
    /\ IF arg.kind = "float"
       THEN probes' = Append(probes, NewProbe(GridIndex(arg.value)))
                /\ raised' = "none"
       ELSE IF arg.kind = "sequence"
       THEN probes' = probes \o ProbesAt(arg.value) /\ raised' = "none"
       ELSE raised' = "TypeError" /\ UNCHANGED probes
    /\ lastOp' = "other" /\ snap' = NoSnap
    /\ UNCHANGED <<args, result, gridVars, fieldVars, materialVars, borders,
                   layers, assigned, sources, runVars>>

(***************************************************************************)
(* The run: FDTD.analyze and FDTD.next_iteration.                          *)
(***************************************************************************)
\* analyze(): both boundaries are the constructor's PECLeft and PECRight, so
\* update_boundary changes nothing and raises nothing.
Analyze ==
    /\ Configurable
    /\ ceze' = [i \in 1..Len(sigma) |-> <<1 - sigma[i], 1 + sigma[i]>>]
    /\ cezh' = [i \in 1..Len(eps) |-> <<W_0, eps[i] * (1 + sigma[i])>>]
    /\ current_time' = 0
    /\ timer' = "active"
    /\ raised' = "none"
    /\ lastOp' = "other" /\ snap' = NoSnap
    /\ UNCHANGED <<args, result, gridVars, fieldVars, materialVars, borders,
                   layers, assigned, sources, probes, pc, phases, steps>>

\* int(self.__current_time // self.__dt)
StepIndex == FloorDiv(current_time, dt)

\* The boundary update placed after the E-injection.
PhaseAfterBoundaryLast(p) ==
    CASE p = "update_H" -> "inject_H"
      [] p = "inject_H" -> "update_E"
      [] p = "update_E" -> "inject_E"
      [] p = "inject_E" -> "update_field"
      [] p = "update_field" -> "add_data"
      [] p = "add_data" -> "advance"
      [] OTHER -> "idle"

\* The statement of next_iteration's if branch that follows the phase p.
PhaseAfter(p) ==
    CASE p = "update_H" -> "inject_H"
      [] p = "inject_H" -> "update_E"
      [] p = "update_E" -> "update_field"
      [] p = "update_field" -> "inject_E"
      [] p = "inject_E" -> "add_data"
      [] p = "add_data" -> "advance"
      [] OTHER -> "idle"

\* source.E(offset, time), with the offset and the time in halves.
SourceE(offset2, time2) == Amplitude + time2 - offset2

\* current_time / dt, in halves.
TimeArg2 == Trunc(2 * current_time, dt)

\* The call is in the phase p: it records the phase and moves to the next.
Enter(p) == pc' = PhaseAfter(p) /\ phases' = Append(phases, p)

\* The call raises IndexError in the phase p and is left.
Raise(p) ==
    /\ pc' = "idle" /\ phases' = Append(phases, p) /\ raised' = "IndexError"

Stepping == timer = "active" /\ raised = "none"

configVars == <<args, result, gridVars, materialVars, layerVars, sources,
                ceze, cezh, timer>>

\* The if branch is taken: H = H + (E[1:] - E[:-1]) * Sc / (W_0 * mu)
UpdateH ==
    /\ Stepping /\ pc = "idle"
    /\ StepIndex < time_counts
    /\ H' = [i \in 1..Len(H) |->
                H[i] + Quot((E[i + 1] - E[i]) * Sc, W_0 * mu[i])]
    /\ pc' = PhaseAfter("update_H")
    /\ phases' = <<"update_H">>
    /\ steps' = steps + 1
    /\ UNCHANGED <<configVars, E, probes, current_time, raised>>

\* The else branch: self.timer.stop()
StopTimer ==
    /\ timer \in {"active", "stopped"} /\ raised = "none" /\ pc = "idle"
    /\ ~(StepIndex < time_counts)
    /\ timer' = "stopped"
    /\ UNCHANGED <<args, result, gridVars, fieldVars, materialVars, layerVars,
                   sources, probes, ceze, cezh, current_time, pc, raised,
                   phases, steps>>

\* H after the H-injection of the sources k.., and whether none raised.
RECURSIVE InjectHFrom(_, _)
InjectHFrom(k, h) ==
    IF k > Len(sources) THEN [ok |-> TRUE, H |-> h]
    ELSE LET i == sources[k].position - 1
         IN IF OutOfBounds(i, Len(h)) \/ OutOfBounds(i, Len(mu))
            THEN [ok |-> FALSE, H |-> h]
            ELSE InjectHFrom(k + 1,
                    Put(h, i, At(h, i) - Quot(Sc * SourceE(0, TimeArg2),
                                              W_0 * At(mu, i))))

\* for source in sources: H[source.position - 1] -= ...
InjectH ==
    /\ Stepping /\ pc = "inject_H"
    /\ LET r == InjectHFrom(1, H)
       IN /\ H' = r.H
          /\ IF r.ok THEN Enter("inject_H") /\ UNCHANGED raised
             ELSE Raise("inject_H")
    /\ UNCHANGED <<configVars, E, probes, current_time, steps>>

\* E[1:-1] = ceze[1:-1] * E[1:-1] + (H[1:] - H[:-1]) * Sc * cezh[1:-1]
UpdateE ==
    /\ Stepping /\ pc = "update_E"
    /\ E' = [i \in 1..Len(E) |->
                IF i = 1 \/ i = Len(E) THEN E[i]
                ELSE Quot(ceze[i][1] * E[i], ceze[i][2])
                     + Quot((H[i] - H[i - 1]) * Sc * cezh[i][1], cezh[i][2])]
    /\ Enter("update_E")
    /\ UNCHANGED <<configVars, H, probes, current_time, raised, steps>>

\* PECLeft.update_field and PECRight.update_field: the edge of E is set to 0.
PECLeftUpdateField(e) == Put(e, 0, 0)
PECRightUpdateField(e) == Put(e, -1, 0)

\* for field in fields(self.__boundary): boundary.update_field(E, H)
UpdateField ==
    /\ Stepping /\ pc = "update_field"
    /\ E' = PECRightUpdateField(PECLeftUpdateField(E))
    /\ Enter("update_field")
    /\ UNCHANGED <<configVars, H, probes, current_time, raised, steps>>

RECURSIVE InjectEFrom(_, _)
InjectEFrom(k, e) ==
    IF k > Len(sources) THEN [ok |-> TRUE, E |-> e]
    ELSE LET i == sources[k].position
         IN IF OutOfBounds(i, Len(e)) \/ OutOfBounds(i, Len(eps))
               \/ OutOfBounds(i, Len(mu))
            THEN [ok |-> FALSE, E |-> e]
            ELSE InjectEFrom(k + 1,
                    Put(e, i, At(e, i) + Quot(Sc * SourceE(-1, TimeArg2 + 1),
                                              Isqrt(At(eps, i) * At(mu, i)))))

\* for source in sources: E[source.position] += ...
InjectE ==
    /\ Stepping /\ pc = "inject_E"
    /\ LET r == InjectEFrom(1, E)
       IN /\ E' = r.E
          /\ IF r.ok THEN Enter("inject_E") /\ UNCHANGED raised
             ELSE Raise("inject_E")
    /\ UNCHANGED <<configVars, H, probes, current_time, steps>>

\* probe.add_data(E, H): the sample is stored at the probe's next free place.
ProbeFull(p) == p.time >= Len(p.E)

ProbeRaises(p) ==
    \/ ProbeFull(p)
    \/ OutOfBounds(p.position, Len(E)) \/ OutOfBounds(p.position, Len(H))

AddData(p) ==
    [p EXCEPT !.E[p.time + 1] = At(E, p.position),
              !.H[p.time + 1] = At(H, p.position),
              !.time = p.time + 1]

\* The first probe whose add_data raises, Len(probes) + 1 if none does.
FirstRaising ==
    IF \E k \in 1..Len(probes) : ProbeRaises(probes[k])
    THEN CHOOSE k \in 1..Len(probes) :
            /\ ProbeRaises(probes[k])
            /\ \A j \in 1..(k - 1) : ~ProbeRaises(probes[j])
    ELSE Len(probes) + 1

\* for probe in probes: probe.add_data(E, H)
SampleProbes ==
    /\ Stepping /\ pc = "add_data"
    /\ probes' = [k \in 1..Len(probes) |->
                     IF k < FirstRaising THEN AddData(probes[k]) ELSE probes[k]]
    /\ IF FirstRaising > Len(probes) THEN Enter("add_data") /\ UNCHANGED raised
       ELSE Raise("add_data")
    /\ UNCHANGED <<configVars, fieldVars, current_time, steps>>

\* self.__current_time += self.__dt
AdvanceTime ==
    /\ Stepping /\ pc = "advance"
    /\ current_time' = FloatRound(current_time + dt)
    /\ Enter("advance")
    /\ UNCHANGED <<configVars, fieldVars, probes, raised, steps>>

NextIteration ==
    \/ UpdateH \/ InjectH \/ UpdateE \/ UpdateField \/ InjectE
    \/ SampleProbes \/ AdvanceTime \/ StopTimer

\* The engines the run behaviours start from.
RunArgs == {[area_size |-> 4, space_step |-> 1, time_duration |-> 2, Sc |-> 1],
            [area_size |-> 12, space_step |-> 3, time_duration |-> 5, Sc |-> 1]}

RunLayerInputs ==
    {[area |-> <<dx, 3 * dx>>, eps |-> m.eps, mu |-> m.mu, sigma |-> m.sigma] :
        m \in Materials}

\* Positions whose grid indices are -N, -(N-1), -1, 0, 1, N-1 and N.
SourcePositions ==
    {k * dx + (dx - 1) :
        k \in {-area_size, 1 - area_size, -1, 0, 1, area_size - 1, area_size}}

ProbeInputs ==
    {[kind |-> "float", value |-> 0],
     [kind |-> "float", value |-> 2 * dx + (dx - 1)],
     [kind |-> "sequence", value |-> <<dx, 2 * dx>>],
     [kind |-> "other", value |-> 0]}

ProbeCount(arg) ==
    IF arg.kind = "float" THEN 1
    ELSE IF arg.kind = "sequence" THEN Len(arg.value) ELSE 0

InitRun == /\ \E a \in RunArgs : Holds(Constructed(a))
           /\ Unstarted

NextRun ==
    \/ \E layer \in RunLayerInputs : layers = <<>> /\ AddLayer(layer)
    \/ \E position \in SourcePositions :
          Len(sources) < MaxSources /\ AddSource(position)
    \/ \E arg \in ProbeInputs :
          Len(probes) + ProbeCount(arg) <= MaxProbes /\ AddProbes(arg)
    \/ Analyze
    \/ NextIteration

SpecRun == InitRun /\ [][NextRun]_vars

(***************************************************************************)
(* The claims.                                                             *)
(***************************************************************************)
\* The rule the documented order reports first on the arguments a, "ok" if
\* no rule is violated.
FirstViolated(a) ==
    IF a.area_size <= 0 THEN "AreaSizeError"
    ELSE IF a.space_step > a.area_size THEN "SpaceStepError"
    ELSE IF a.Sc <= 0 THEN "ScValueError"
    ELSE IF a.time_duration <= 0 THEN "TimeDurationError"
    ELSE IF a.space_step * a.Sc > c * a.time_duration THEN "TimeStepError"
    ELSE "ok"

\* C1: on every argument tuple the constructor succeeds when no rule is
\* violated and otherwise raises exactly the first violated rule of the order
\* AreaSizeError, SpaceStepError, ScValueError, TimeDurationError,
\* TimeStepError.
Claim1_FirstViolatedRule == result # "new" => result = FirstViolated(args)

\* C1 on the tuples with a positive space step: there the constructor does
\* report the first violated rule and succeeds when there is none.
Claim1_PositiveStep ==
    (result # "new" /\ args.space_step > 0) => result = FirstViolated(args)

\* C2: add_layer(L) followed immediately by delete_layer(L.name) leaves eps,
\* mu, sigma, the borders list and the layer list as they were before the add.
Claim2_RoundTrip == lastOp = "roundtrip" => GridSnapshot = snap

\* C2, the part on the two lists: after add_layer(L) and delete_layer(L.name)
\* the layer list and the borders list are as they were before the add (the
\* two entries removed from the borders list are the two the add appended).
Claim2_RoundTripLists ==
    lastOp = "roundtrip" => layers = snap.layers /\ borders = snap.borders

\* C3: only the first time_counts calls of next_iteration advance the
\* simulation, and the step index never exceeds time_counts.
Claim3_StepsBounded == steps <= time_counts /\ StepIndex <= time_counts

\* C4: every probe has a series of time_counts samples; whenever a step
\* reaches the sampling the series has a free place for the sample, after
\* the sampling the probe holds one sample per step taken, and once the run
\* is over it holds exactly time_counts samples.
Claim4_ProbeSeries ==
    \A k \in 1..Len(probes) :
        /\ Len(probes[k].E) = time_counts /\ Len(probes[k].H) = time_counts
        /\ probes[k].time <= time_counts
        /\ pc = "add_data" => ~ProbeFull(probes[k])
        /\ pc = "advance" => probes[k].time = steps
        /\ timer = "stopped" => probes[k].time = time_counts

\* C5: with no source and sigma zero everywhere (the boundaries are the
\* constructor's fixed-value pair and the fields start at zero), E and H are
\* zero at every point of every step.
Claim5_ZeroGroundState ==
    (sources = <<>> /\ AllZero(sigma)) => (AllZero(E) /\ AllZero(H))

Witness5_ZeroGroundState ==
    /\ sources = <<>> /\ AllZero(sigma) /\ layers # <<>>
    /\ steps >= 2 /\ pc = "idle" /\ AllZero(E) /\ AllZero(H)

\* A source's indices lie in the arrays they address: its grid index in E
\* (0 .. N - 1) and its H-injection index in H (0 .. N - 2).
InRange(source) ==
    /\ source.position \in 0..(area_size - 1)
    /\ (source.position - 1) \in 0..(area_size - 2)

\* C6: a source with an index outside the array it addresses is never
\* silently accepted: no H-injection of a step completes without an error
\* while such a source is registered.
Claim6_OutOfRangeSurfaces ==
    pc = "update_E" => \A k \in 1..Len(sources) : InRange(sources[k])

\* C7: no name is ever assigned to two layers.
Claim7_NamesUnique ==
    \A i, j \in 1..Len(assigned) : i # j => assigned[i] # assigned[j]

\* The order of the phases of a step.
StepOrder == <<"update_H", "inject_H", "update_E", "update_field",
               "inject_E", "add_data", "advance">>

\* C8: the phases of every step occur in the order H update, H-injection,
\* interior E update, boundary update, E-injection, probe sampling, time
\* advance; the edges of E are the boundaries' values when the E-injection
\* starts, and a probe's sample of a step is the field after that step's
\* E-injection.
Claim8_PhaseOrder ==
    /\ Len(phases) <= Len(StepOrder)
    /\ \A i \in 1..Len(phases) : phases[i] = StepOrder[i]
    /\ pc # "idle" => /\ Len(phases) < Len(StepOrder)
                      /\ pc = StepOrder[Len(phases) + 1]
    /\ pc = "inject_E" => E[1] = 0 /\ E[Len(E)] = 0
    /\ pc = "advance" =>
          \A k \in 1..Len(probes) :
              probes[k].E[probes[k].time] = At(E, probes[k].position)

Witness8_PhaseOrder ==
    /\ pc = "idle" /\ phases = StepOrder /\ raised = "none"
    /\ sources # <<>> /\ probes # <<>> /\ steps >= 2
    /\ \E i \in 1..Len(E) : E[i] # 0

\* C9: a successful construction yields N = floor(area_size / space_step)
\* nodes with N >= 2, E of N elements, H and mu of N - 1 >= 1 elements.
Claim9_AtLeastTwoNodes ==
    result = "ok" =>
        /\ area_size * args.space_step <= args.area_size
        /\ args.area_size < (area_size + 1) * args.space_step
        /\ area_size >= 2
        /\ Len(E) = area_size /\ Len(H) = area_size - 1
        /\ Len(mu) = area_size - 1 /\ Len(H) >= 1

\* C9 as amended: a successful construction yields
\* N = floor(area_size / space_step) nodes with N >= 1, E of N elements, H and
\* mu of N - 1 >= 0 elements.
Claim9_NodeCount ==
    result = "ok" =>
        /\ area_size * args.space_step <= args.area_size
        /\ args.area_size < (area_size + 1) * args.space_step
        /\ area_size >= 1
        /\ Len(E) = area_size /\ Len(H) = area_size - 1
        /\ Len(mu) = area_size - 1 /\ Len(H) >= 0

Witness9_NodeCount ==
    /\ result = "ok" /\ area_size = 1 /\ H = <<>> /\ Len(E) = 1
    /\ args.area_size > args.space_step

\* C10: the borders list tracks the layer list: it has 2 * len(layers)
\* entries, and entries 2i and 2i + 1 are the start and the end of the area
\* of the i-th layer.
Claim10_BordersTrackLayers ==
    /\ Len(borders) = 2 * Len(layers)
    /\ \A i \in 1..Len(layers) :
          /\ borders[2 * i - 1] = layers[i].area[1]
          /\ borders[2 * i] = layers[i].area[2]

Witness10_BordersTrackLayers ==
    /\ Len(assigned) = 3 /\ Len(layers) = 2 /\ lastOp = "other"
    /\ layers[1].name = LayerName(1)
    /\ Len(borders) = 4 /\ borders[1] = layers[1].area[1]

====
